---- MODULE Spec2Model ----
(***************************************************************************)
(* SysButler transfer engine: the job queue of TransferManager, the        *)
(* producer calls (QueueJob, StartQueue, PauseQueue, ResumeQueue,          *)
(* RemoveJob, destructor) and the worker thread (WorkerLoop), over a small *)
(* filesystem.  The producer and the worker are two threads; every step    *)
(* below is one atomic access (a std::atomic load or store, a critical     *)
(* section of m_queueMutex, or one filesystem primitive).                  *)
(***************************************************************************)
EXTENDS Integers, Sequences, FiniteSets, TLC

VARIABLES
    m_queue,       \* std::deque<std::shared_ptr<FileJob>>: sequence of job ids
    jobs,          \* the FileJob objects alive (in m_queue or held by the worker)
    m_running,     \* std::atomic<bool>
    m_paused,      \* std::atomic<bool>
    m_stopThread,  \* std::atomic<bool>
    fs,            \* the filesystem: path -> [dir, size]
    prod,          \* the producer thread: position and loop index / argument
    w,             \* the worker thread: position and locals of WorkerLoop
    nextId,        \* number of FileJob objects created so far, plus one
    faults,        \* number of filesystem calls the OS has refused so far
    refused        \* the jobs for which a copy, move, create or delete call failed

vars == <<m_queue, jobs, m_running, m_paused, m_stopThread, fs, prod, w, nextId, faults, refused>>

\* Bounds of the model.
MaxJobs == 2
MaxFaults == 1

(***************************************************************************)
(* Paths: a root name and a sequence of file names; a file name is a stem  *)
(* and an extension, as std::filesystem::path splits it.                   *)
(***************************************************************************)
FileName(stem, ext) == [stem |-> stem, ext |-> ext]

MkPath(root, names) == [root |-> root, names |-> names]

\* path::filename()
filename(p) ==
    IF Len(p.names) = 0 THEN FileName("", "") ELSE p.names[Len(p.names)]

\* path::parent_path()
parent_path(p) ==
    IF Len(p.names) = 0 THEN p
    ELSE MkPath(p.root, SubSeq(p.names, 1, Len(p.names) - 1))

\* path::root_name()
root_name(p) == p.root

\* operator/ (append one file name)
Join(p, name) == MkPath(p.root, Append(p.names, name))

\* q is p or lies below p
IsUnder(q, p) ==
    /\ q.root = p.root
    /\ Len(q.names) >= Len(p.names)
    /\ SubSeq(q.names, 1, Len(p.names)) = p.names

\* std::filesystem::relative(q, base) followed by dest / relative
Rebase(q, base, dest) ==
    MkPath(dest.root,
           dest.names \o SubSeq(q.names, Len(base.names) + 1, Len(q.names)))

(***************************************************************************)
(* Filesystem primitives.  f is a function from the existing paths to      *)
(* [dir |-> BOOLEAN, size |-> Nat].                                        *)
(***************************************************************************)
DirEntry == [dir |-> TRUE, size |-> 0]

FileEntry(n) == [dir |-> FALSE, size |-> n]

exists(f, p) == p \in DOMAIN f

is_directory(f, p) == p \in DOMAIN f /\ f[p].dir

Restrict(f, S) == [q \in S |-> f[q]]

\* all ancestors of p, p included
Ancestors(p) == {MkPath(p.root, SubSeq(p.names, 1, k)) : k \in 0..Len(p.names)}

\* std::filesystem::create_directories: possible iff no ancestor is a file
CanCreateDirectories(f, p) ==
    \A a \in Ancestors(p) : a \in DOMAIN f => f[a].dir

create_directories(f, p) ==
    [q \in DOMAIN f \cup Ancestors(p) |-> IF q \in DOMAIN f THEN f[q] ELSE DirEntry]

\* CopyFileExW(src, dst, ..., 0): a regular file into an existing directory;
\* dwCopyFlags = 0 lets it replace an existing file
CanCopyFile(f, src, dst) ==
    /\ exists(f, src) /\ ~f[src].dir
    /\ Len(dst.names) > 0
    /\ is_directory(f, parent_path(dst))
    /\ ~is_directory(f, dst)

CopyFileExW(f, src, dst) ==
    [q \in DOMAIN f \cup {dst} |-> IF q = dst THEN FileEntry(f[src].size) ELSE f[q]]

\* MoveFileWithProgressW without MOVEFILE_REPLACE_EXISTING: the source (a file
\* or a whole directory) is renamed; it fails when the target exists
CanMoveFile(f, src, dst) ==
    /\ exists(f, src)
    /\ Len(src.names) > 0 /\ Len(dst.names) > 0
    /\ ~exists(f, dst)
    /\ is_directory(f, parent_path(dst))
    /\ ~IsUnder(dst, src)
    /\ (f[src].dir => src.root = dst.root)

MoveFileWithProgressW(f, src, dst) ==
    LET moved == {q \in DOMAIN f : IsUnder(q, src)}
        kept  == DOMAIN f \ moved
        back(t) == CHOOSE q \in moved : Rebase(q, src, dst) = t
    IN  [t \in kept \cup {Rebase(q, src, dst) : q \in moved} |->
            IF t \in kept THEN f[t] ELSE f[back(t)]]

\* remove that leaves the file in place
remove_Nothing(f, p) == f

\* std::filesystem::remove (one file) and remove_all (a tree)
remove(f, p) == Restrict(f, DOMAIN f \ {p})

remove_all(f, p) == Restrict(f, {q \in DOMAIN f : ~IsUnder(q, p)})

\* std::filesystem::recursive_directory_iterator(dir): every entry below dir,
\* depth first, a directory before its contents
RECURSIVE ListDir(_, _), Visit(_, _)
ListDir(f, d) ==
    Visit(f, {q \in DOMAIN f : Len(q.names) > 0 /\ parent_path(q) = d})

Visit(f, kids) ==
    IF kids = {} THEN <<>>
    ELSE LET k == CHOOSE k \in kids : TRUE
         IN  <<k>> \o (IF f[k].dir THEN ListDir(f, k) ELSE <<>>)
                   \o Visit(f, kids \ {k})

recursive_directory_iterator(f, dir) == ListDir(f, dir)

RECURSIVE SumSizes(_, _, _)
SumSizes(f, entries, n) ==
    IF n = 0 THEN 0
    ELSE SumSizes(f, entries, n - 1)
         + (IF f[entries[n]].dir THEN 0 ELSE f[entries[n]].size)

\* GetDirectorySize(dir); failAt = 0: the traversal raises nothing;
\* failAt = k: the k-th entry raises, which ends the loop (catch (...) {})
GetDirectorySize(f, dir, failAt) ==
    LET entries == recursive_directory_iterator(f, dir)
    IN  IF failAt = 0 THEN SumSizes(f, entries, Len(entries))
        ELSE SumSizes(f, entries, failAt - 1)

RECURSIVE UniqueProbe(_, _, _, _, _)
UniqueProbe(f, folder, stem, ext, counter) ==
    LET newName == FileName(stem \o " (" \o ToString(counter) \o ")", ext)
        target  == Join(folder, newName)
    IN  IF exists(f, target) THEN UniqueProbe(f, folder, stem, ext, counter + 1)
        ELSE target

\* GetUniquePath that appends " (1)" once, without probing again
GetUniquePath_FirstSuffix(f, target) ==
    IF ~exists(f, target) THEN target
    ELSE Join(parent_path(target),
              FileName(filename(target).stem \o " (1)", filename(target).ext))

\* GetUniquePath that returns the target as it is
GetUniquePath_Identity(f, target) == target

GetUniquePath(f, target) ==
    IF ~exists(f, target) THEN target
    ELSE UniqueProbe(f, parent_path(target), filename(target).stem,
                     filename(target).ext, 1)

(***************************************************************************)
(* The filesystem at start and the arguments the producer passes.          *)
(***************************************************************************)
RootC == MkPath("C:", <<>>)
RootD == MkPath("D:", <<>>)
DirA  == Join(RootC, FileName("A", ""))
FileF == Join(DirA, FileName("f", ".txt"))
DirS  == Join(DirA, FileName("s", ""))
FileG == Join(DirS, FileName("g", ".txt"))
FileX == Join(RootC, FileName("x", ".txt"))
DirT  == Join(RootC, FileName("T", ""))
DirB  == Join(RootD, FileName("B", ""))

InitFs ==
    [q \in {RootC, RootD, DirA, FileF, DirS, FileG, FileX, DirT, DirB} |->
        IF q = FileF THEN FileEntry(1)
        ELSE IF q = FileG THEN FileEntry(2)
        ELSE IF q = FileX THEN FileEntry(1)
        ELSE DirEntry]

Sources   == {DirA, FileX}
DestRoots == {DirB, DirT}
JobTypes  == {"Copy", "Move"}

(***************************************************************************)
(* Jobs.  progress is the float bytesCopied / totalBytes, kept as a        *)
(* reduced fraction.                                                       *)
(***************************************************************************)
RECURSIVE Gcd(_, _)
Gcd(a, b) == IF b = 0 THEN a ELSE Gcd(b, a % b)

Frac(n, d) == IF n = 0 THEN [n |-> 0, d |-> 1]
              ELSE [n |-> n \div Gcd(n, d), d |-> d \div Gcd(n, d)]

Zero == Frac(0, 1)
One  == Frac(1, 1)

FracLeq(a, b) == a.n * b.d <= b.n * a.d

NoJob == 0

WorkerIdle == [pc |-> "lookup", cur |-> NoJob, finalDest |-> RootC,
               isFolder |-> FALSE, sameDrive |-> FALSE, success |-> FALSE,
               totalBytes |-> 0, bytesCopied |-> 0, entries |-> <<>>]

ProdIdle == [pc |-> "idle", i |-> 0]

\* shared_ptr: a FileJob lives while m_queue or the worker's currentJob holds it
Alive(js, queue, cur) ==
    Restrict(js, {id \in DOMAIN js : id = cur \/ \E k \in 1..Len(queue) : queue[k] = id})

SetField(js, id, field, val) == [js EXCEPT ![id] = [js[id] EXCEPT ![field] = val]]

\* the producer holds m_queueMutex
ProducerHoldsMutex ==
    prod.pc \in {"queueIsDir", "pauseLoad", "pauseStore", "resumeLoad", "resumeStore",
                 "removeErase"}

\* what a filesystem call can do: work (TRUE) or be refused by the OS (FALSE)
Outcomes == IF faults < MaxFaults THEN BOOLEAN ELSE {TRUE}

\* the worker holds m_queueMutex (between the two reads of m_running)
WorkerHoldsMutex == w.pc = "lookupClear"

Init ==
    /\ m_queue = <<>>
    /\ jobs = <<>>
    /\ m_running = FALSE
    /\ m_paused = FALSE
    /\ m_stopThread = FALSE
    /\ fs = InitFs
    /\ prod = ProdIdle
    /\ w = WorkerIdle
    /\ nextId = 1
    /\ faults = 0
    /\ refused = {}

(***************************************************************************)
(* The producer thread.  Both threads are gone once the process has        *)
(* terminated.                                                             *)
(***************************************************************************)
ProcessAlive == w.pc # "terminated" /\ prod.pc # "terminated"

NewJob(src, dest, type) ==
    [source |-> src,
     destination |-> IF is_directory(fs, dest) THEN Join(dest, filename(src)) ELSE dest,
     type |-> type, progress |-> Zero, status |-> "Pending", errorMessage |-> ""]

\* QueueJob(src, dest, type) is called: lock_guard, make_shared, job->source
QueueJob(src, dest, type) ==
    /\ ProcessAlive /\ prod.pc = "idle"
    /\ ~WorkerHoldsMutex
    /\ nextId <= MaxJobs
    /\ prod' = [pc |-> "queueIsDir", i |-> [src |-> src, dest |-> dest, type |-> type]]
    /\ UNCHANGED <<m_queue, jobs, m_running, m_paused, m_stopThread, fs, w, nextId,
                   faults, refused>>

\* QueueJob, still under the lock: std::filesystem::is_directory(finalDest),
\* which throws on an OS error (nothing in the UI thread catches it), then
\* destination, type, status, push_back and unlock
QueueJobPush ==
    /\ ProcessAlive /\ prod.pc = "queueIsDir"
    /\ \E ok \in Outcomes :
         /\ faults' = IF ok THEN faults ELSE faults + 1
         /\ IF ok
            THEN /\ jobs' = [id \in DOMAIN jobs \cup {nextId} |->
                                IF id = nextId
                                THEN NewJob(prod.i.src, prod.i.dest, prod.i.type)
                                ELSE jobs[id]]
                 /\ m_queue' = Append(m_queue, nextId)
                 /\ nextId' = nextId + 1
                 /\ prod' = ProdIdle
            ELSE /\ prod' = [pc |-> "terminated", i |-> 0]
                 /\ UNCHANGED <<m_queue, jobs, nextId>>
    /\ UNCHANGED <<m_running, m_paused, m_stopThread, fs, w, refused>>

\* StartQueue(): if (!m_running) m_running = true
StartQueue ==
    /\ ProcessAlive /\ prod.pc = "idle"
    /\ m_running' = TRUE
    /\ UNCHANGED <<m_queue, jobs, m_paused, m_stopThread, fs, prod, w, nextId, faults, refused>>

\* PauseQueue(), first statement: m_paused = true (before the lock is taken)
PauseQueueFlag ==
    /\ ProcessAlive /\ prod.pc = "idle"
    /\ m_paused' = TRUE
    /\ prod' = [pc |-> "pauseLock", i |-> 0]
    /\ UNCHANGED <<m_queue, jobs, m_running, m_stopThread, fs, w, nextId, faults, refused>>

\* PauseQueue(): std::lock_guard lock(m_queueMutex)
PauseQueueLock ==
    /\ ProcessAlive /\ prod.pc = "pauseLock"
    /\ ~WorkerHoldsMutex
    /\ prod' = [pc |-> "pauseLoad", i |-> 1]
    /\ UNCHANGED <<m_queue, jobs, m_running, m_paused, m_stopThread, fs, w, nextId, faults, refused>>

\* PauseQueue(), loop: the atomic load in  if (job->status == Copying)
PauseQueueLoad ==
    /\ ProcessAlive /\ prod.pc = "pauseLoad"
    /\ prod' = IF prod.i > Len(m_queue) THEN ProdIdle
               ELSE IF jobs[m_queue[prod.i]].status = "Copying"
                    THEN [pc |-> "pauseStore", i |-> prod.i]
                    ELSE [pc |-> "pauseLoad", i |-> prod.i + 1]
    /\ UNCHANGED <<m_queue, jobs, m_running, m_paused, m_stopThread, fs, w, nextId, faults, refused>>

\* PauseQueue(), loop: the atomic store  job->status = Paused
PauseQueueStore ==
    /\ ProcessAlive /\ prod.pc = "pauseStore"
    /\ jobs' = SetField(jobs, m_queue[prod.i], "status", "Paused")
    /\ prod' = [pc |-> "pauseLoad", i |-> prod.i + 1]
    /\ UNCHANGED <<m_queue, m_running, m_paused, m_stopThread, fs, w, nextId, faults, refused>>

\* ResumeQueue(), first statement: m_paused = false
ResumeQueueFlag ==
    /\ ProcessAlive /\ prod.pc = "idle"
    /\ m_paused' = FALSE
    /\ prod' = [pc |-> "resumeLock", i |-> 0]
    /\ UNCHANGED <<m_queue, jobs, m_running, m_stopThread, fs, w, nextId, faults, refused>>

ResumeQueueLock ==
    /\ ProcessAlive /\ prod.pc = "resumeLock"
    /\ ~WorkerHoldsMutex
    /\ prod' = [pc |-> "resumeLoad", i |-> 1]
    /\ UNCHANGED <<m_queue, jobs, m_running, m_paused, m_stopThread, fs, w, nextId, faults, refused>>

\* ResumeQueue(), loop: the atomic load in  if (job->status == Paused)
ResumeQueueLoad ==
    /\ ProcessAlive /\ prod.pc = "resumeLoad"
    /\ prod' = IF prod.i > Len(m_queue) THEN ProdIdle
               ELSE IF jobs[m_queue[prod.i]].status = "Paused"
                    THEN [pc |-> "resumeStore", i |-> prod.i]
                    ELSE [pc |-> "resumeLoad", i |-> prod.i + 1]
    /\ UNCHANGED <<m_queue, jobs, m_running, m_paused, m_stopThread, fs, w, nextId, faults, refused>>

\* ResumeQueueStore that puts the job back to Pending
ResumeQueueStore_ToPending ==
    /\ ProcessAlive /\ prod.pc = "resumeStore"
    /\ jobs' = SetField(jobs, m_queue[prod.i], "status", "Pending")
    /\ prod' = [pc |-> "resumeLoad", i |-> prod.i + 1]
    /\ UNCHANGED <<m_queue, m_running, m_paused, m_stopThread, fs, w, nextId, faults, refused>>

\* ResumeQueue(), loop: the atomic store  job->status = Copying
ResumeQueueStore ==
    /\ ProcessAlive /\ prod.pc = "resumeStore"
    /\ jobs' = SetField(jobs, m_queue[prod.i], "status", "Copying")
    /\ prod' = [pc |-> "resumeLoad", i |-> prod.i + 1]
    /\ UNCHANGED <<m_queue, m_running, m_paused, m_stopThread, fs, w, nextId, faults, refused>>

\* RemoveJob(index) is called; index is the 0-based position
RemoveJobCall(index) ==
    /\ ProcessAlive /\ prod.pc = "idle"
    /\ prod' = [pc |-> "removeLock", i |-> index]
    /\ UNCHANGED <<m_queue, jobs, m_running, m_paused, m_stopThread, fs, w, nextId, faults, refused>>

\* RemoveAllowed without the status test
RemoveAllowed_NoStatusTest(queue, js, index) ==
    ~(index < 0 \/ index >= Len(queue))

\* the condition under which RemoveJob erases: a valid index and
\* job->status != Copying
RemoveAllowed(queue, js, index) ==
    /\ ~(index < 0 \/ index >= Len(queue))
    /\ js[queue[index + 1]].status # "Copying"

\* RemoveJob: lock, index check, load of job->status
RemoveJobCheck ==
    /\ ProcessAlive /\ prod.pc = "removeLock"
    /\ ~WorkerHoldsMutex
    /\ prod' = IF RemoveAllowed(m_queue, jobs, prod.i)
               THEN [pc |-> "removeErase", i |-> prod.i]
               ELSE ProdIdle
    /\ UNCHANGED <<m_queue, jobs, m_running, m_paused, m_stopThread, fs, w, nextId, faults, refused>>

\* m_queue.erase(m_queue.begin() + index)
Erase(queue, index) ==
    SubSeq(queue, 1, index) \o SubSeq(queue, index + 2, Len(queue))

RemoveJobErase ==
    /\ ProcessAlive /\ prod.pc = "removeErase"
    /\ m_queue' = Erase(m_queue, prod.i)
    /\ jobs' = Alive(jobs, m_queue', w.cur)
    /\ refused' = refused \cap DOMAIN jobs'
    /\ prod' = ProdIdle
    /\ UNCHANGED <<m_running, m_paused, m_stopThread, fs, w, nextId, faults>>

\* ~TransferManager(): m_stopThread = true, then join
Destructor ==
    /\ ProcessAlive /\ prod.pc = "idle"
    /\ m_stopThread' = TRUE
    /\ prod' = [pc |-> "join", i |-> 0]
    /\ UNCHANGED <<m_queue, jobs, m_running, m_paused, fs, w, nextId, faults, refused>>

DestructorJoin ==
    /\ prod.pc = "join" /\ w.pc = "exited"
    /\ prod' = [pc |-> "destroyed", i |-> 0]
    /\ UNCHANGED <<m_queue, jobs, m_running, m_paused, m_stopThread, fs, w, nextId, faults, refused>>

(***************************************************************************)
(* The worker thread: WorkerLoop.  A filesystem primitive either does its  *)
(* work or fails (ok = FALSE: the OS refuses, e.g. access denied).  A      *)
(* throwing std::filesystem call raises on failure; outside the try block  *)
(* of the tree copy nothing catches it and the process terminates.         *)
(***************************************************************************)
\* where the size scan can raise: nowhere (0) or at its k-th entry
ScanOutcomes(f, dir) ==
    IF faults < MaxFaults THEN 0..Len(recursive_directory_iterator(f, dir)) ELSE {0}

\* position (1-based) of the first job with status Pending, 0 if there is none
RECURSIVE FirstPendingFrom(_, _, _)
FirstPendingFrom(queue, js, k) ==
    IF k > Len(queue) THEN 0
    ELSE IF js[queue[k]].status = "Pending" THEN k
    ELSE FirstPendingFrom(queue, js, k + 1)

\* FirstPending scanning from the back: the last Pending job
FirstPending_FromBack(queue, js) ==
    IF \E k \in 1..Len(queue) : js[queue[k]].status = "Pending"
    THEN CHOOSE k \in 1..Len(queue) :
            /\ js[queue[k]].status = "Pending"
            /\ \A j \in (k + 1)..Len(queue) : js[queue[j]].status # "Pending"
    ELSE 0

FirstPending(queue, js) == FirstPendingFrom(queue, js, 1)

\* ClaimedJob without the test of m_running
ClaimedJob_IgnoreRunning(running, queue, js) ==
    IF Len(queue) > 0 /\ FirstPending(queue, js) # 0
    THEN queue[FirstPending(queue, js)]
    ELSE NoJob

\* the job the lookup selects: m_running && !m_queue.empty(), first Pending
ClaimedJob(running, queue, js) ==
    IF running /\ Len(queue) > 0 /\ FirstPending(queue, js) # 0
    THEN queue[FirstPending(queue, js)]
    ELSE NoJob

\* while (!m_stopThread), lock, and the search of lines 169-177: m_running is
\* read here for the first time; with a job found, line 178 does nothing and
\* the lock is released
WLookup ==
    /\ ProcessAlive /\ w.pc = "lookup"
    /\ ~ProducerHoldsMutex
    /\ IF m_stopThread
       THEN w' = [w EXCEPT !.pc = "exited"]
       ELSE LET currentJob == ClaimedJob(m_running, m_queue, jobs)
            IN  w' = IF currentJob = NoJob THEN [w EXCEPT !.pc = "lookupClear"]
                     ELSE [w EXCEPT !.pc = "setCopying", !.cur = currentJob]
    /\ UNCHANGED <<m_queue, jobs, m_running, m_paused, m_stopThread, fs, prod, nextId,
                   faults, refused>>

\* line 178 with no job found: m_running is read a second time, still under
\* the lock;  if (m_running && !pendingJobsExist && !currentJob) m_running = false;
\* then unlock and sleep
WLookupClear ==
    /\ ProcessAlive /\ w.pc = "lookupClear"
    /\ m_running' = IF m_running THEN FALSE ELSE m_running
    /\ w' = [w EXCEPT !.pc = "lookup"]
    /\ UNCHANGED <<m_queue, jobs, m_paused, m_stopThread, fs, prod, nextId, faults, refused>>

\* currentJob->status = JobStatus::Copying
WSetCopying ==
    /\ ProcessAlive /\ w.pc = "setCopying"
    /\ jobs' = SetField(jobs, w.cur, "status", "Copying")
    /\ w' = [w EXCEPT !.pc = "resolve"]
    /\ UNCHANGED <<m_queue, m_running, m_paused, m_stopThread, fs, prod, nextId, faults, refused>>

\* the destination the worker resolves before GetUniquePath
MergedDest(f, job) ==
    IF (is_directory(f, job.destination) \/ is_directory(f, job.source))
       /\ exists(f, job.destination)
    THEN Join(job.destination, filename(job.source))
    ELSE job.destination

\* Strategy with the test of the type left out of the first branch
Strategy_IgnoreType(isFolder, type, sameDrive) ==
    IF isFolder /\ sameDrive THEN "stratA"
    ELSE IF ~isFolder THEN "stratB"
    ELSE "C_calc"

\* the branch of the strategy dispatch
Strategy(isFolder, type, sameDrive) ==
    IF isFolder /\ type = "Move" /\ sameDrive THEN "stratA"
    ELSE IF ~isFolder THEN "stratB"
    ELSE "C_calc"

\* destination resolution, isFolder, sameDrive and the dispatch; the
\* is_directory / exists calls throw on an OS error
WResolve ==
    /\ ProcessAlive /\ w.pc = "resolve"
    /\ \E ok \in Outcomes :
         /\ faults' = IF ok THEN faults ELSE faults + 1
         /\ IF ~ok
            THEN /\ w' = [w EXCEPT !.pc = "terminated"]
                 /\ UNCHANGED jobs
            ELSE LET job == jobs[w.cur]
                     finalDest == GetUniquePath(fs, MergedDest(fs, job))
                     isFolder == is_directory(fs, job.source)
                     sameDrive == (root_name(job.source) = root_name(finalDest))
                 IN  /\ jobs' = SetField(jobs, w.cur, "destination", finalDest)
                     /\ w' = [w EXCEPT !.finalDest = finalDest,
                                       !.isFolder = isFolder,
                                       !.sameDrive = sameDrive,
                                       !.pc = Strategy(isFolder, job.type, sameDrive)]
    /\ UNCHANGED <<m_queue, m_running, m_paused, m_stopThread, fs, prod, nextId, refused>>

\* CASE 1: MoveFileWithProgressW on the directory; if (success) progress = 1.0f
WStratA ==
    /\ ProcessAlive /\ w.pc = "stratA"
    /\ \E ok \in Outcomes :
         /\ faults' = IF ok THEN faults ELSE faults + 1
         /\ LET src == jobs[w.cur].source
                success == ok /\ CanMoveFile(fs, src, w.finalDest)
            IN  /\ fs' = IF success THEN MoveFileWithProgressW(fs, src, w.finalDest) ELSE fs
                /\ jobs' = IF success THEN SetField(jobs, w.cur, "progress", One) ELSE jobs
                /\ refused' = IF success THEN refused ELSE refused \cup {w.cur}
                /\ w' = [w EXCEPT !.success = success, !.pc = "finish"]
    /\ UNCHANGED <<m_queue, m_running, m_paused, m_stopThread, prod, nextId>>

\* CASE 2: CopyFileExW if Copy or another drive, MoveFileWithProgressW otherwise
WStratB ==
    /\ ProcessAlive /\ w.pc = "stratB"
    /\ \E ok \in Outcomes :
         /\ faults' = IF ok THEN faults ELSE faults + 1
         /\ LET job == jobs[w.cur]
                copy == job.type = "Copy" \/ ~w.sameDrive
                success == ok /\ IF copy THEN CanCopyFile(fs, job.source, w.finalDest)
                                 ELSE CanMoveFile(fs, job.source, w.finalDest)
            IN  /\ fs' = IF ~success THEN fs
                         ELSE IF copy THEN CopyFileExW(fs, job.source, w.finalDest)
                         ELSE MoveFileWithProgressW(fs, job.source, w.finalDest)
                /\ refused' = IF success THEN refused ELSE refused \cup {w.cur}
                /\ w' = [w EXCEPT !.success = success,
                                  !.pc = IF success /\ job.type = "Move" /\ ~w.sameDrive
                                         THEN "B_remove" ELSE "finish"]
    /\ UNCHANGED <<m_queue, jobs, m_running, m_paused, m_stopThread, prod, nextId>>

\* std::filesystem::remove(currentJob->source) after a cross-drive move
WBRemove ==
    /\ ProcessAlive /\ w.pc = "B_remove"
    /\ \E ok \in Outcomes :
         /\ faults' = IF ok THEN faults ELSE faults + 1
         /\ IF ok
            THEN /\ fs' = remove(fs, jobs[w.cur].source)
                 /\ w' = [w EXCEPT !.pc = "finish"]
                 /\ UNCHANGED refused
            ELSE /\ w' = [w EXCEPT !.pc = "terminated"]
                 /\ refused' = refused \cup {w.cur}
                 /\ UNCHANGED fs
    /\ UNCHANGED <<m_queue, jobs, m_running, m_paused, m_stopThread, prod, nextId>>

\* catch (const std::exception& e): errorMessage = e.what(); success = false
Caught(js, id) == SetField(js, id, "errorMessage", "filesystem error")

\* CASE 3: currentJob->status = JobStatus::Calculating
WCCalc ==
    /\ ProcessAlive /\ w.pc = "C_calc"
    /\ jobs' = SetField(jobs, w.cur, "status", "Calculating")
    /\ w' = [w EXCEPT !.pc = "C_scan"]
    /\ UNCHANGED <<m_queue, m_running, m_paused, m_stopThread, fs, prod, nextId, faults, refused>>

\* totalBytes = GetDirectorySize(source); bytesCopied = 0
WCScan ==
    /\ ProcessAlive /\ w.pc = "C_scan"
    /\ \E failAt \in ScanOutcomes(fs, jobs[w.cur].source) :
         /\ faults' = IF failAt = 0 THEN faults ELSE faults + 1
         /\ w' = [w EXCEPT !.totalBytes = GetDirectorySize(fs, jobs[w.cur].source, failAt),
                           !.bytesCopied = 0,
                           !.pc = "C_setCopying"]
    /\ UNCHANGED <<m_queue, jobs, m_running, m_paused, m_stopThread, fs, prod, nextId, refused>>

\* currentJob->status = JobStatus::Copying (second time)
WCSetCopying ==
    /\ ProcessAlive /\ w.pc = "C_setCopying"
    /\ jobs' = SetField(jobs, w.cur, "status", "Copying")
    /\ w' = [w EXCEPT !.pc = "C_mkdir"]
    /\ UNCHANGED <<m_queue, m_running, m_paused, m_stopThread, fs, prod, nextId, faults, refused>>

\* create_directories(finalDest) and the construction of the iterator
WCMkdir ==
    /\ ProcessAlive /\ w.pc = "C_mkdir"
    /\ \E ok \in Outcomes :
         /\ faults' = IF ok THEN faults ELSE faults + 1
         /\ IF ok /\ CanCreateDirectories(fs, w.finalDest)
            THEN /\ fs' = create_directories(fs, w.finalDest)
                 /\ w' = [w EXCEPT !.entries =
                                       recursive_directory_iterator(fs', jobs[w.cur].source),
                                   !.pc = "C_walk"]
                 /\ UNCHANGED <<jobs, refused>>
            ELSE /\ jobs' = Caught(jobs, w.cur)
                 /\ w' = [w EXCEPT !.success = FALSE, !.pc = "finish"]
                 /\ refused' = refused \cup {w.cur}
                 /\ UNCHANGED fs
    /\ UNCHANGED <<m_queue, m_running, m_paused, m_stopThread, prod, nextId>>

\* head of the for loop and  while (status == Paused) sleep
WCWalk ==
    /\ ProcessAlive /\ w.pc = "C_walk"
    /\ \E ok \in IF w.entries = <<>> THEN {TRUE} ELSE Outcomes :
         /\ faults' = IF ok THEN faults ELSE faults + 1
         /\ IF w.entries = <<>>
            THEN /\ w' = [w EXCEPT !.pc = "C_done"]
                 /\ UNCHANGED jobs
            ELSE IF ~ok
            THEN /\ jobs' = Caught(jobs, w.cur)
                 /\ w' = [w EXCEPT !.success = FALSE, !.entries = <<>>, !.pc = "finish"]
            ELSE /\ w' = IF jobs[w.cur].status = "Paused" THEN w
                         ELSE [w EXCEPT !.pc = "C_entry"]
                 /\ UNCHANGED jobs
    /\ UNCHANGED <<m_queue, m_running, m_paused, m_stopThread, fs, prod, nextId, refused>>

\* progress = (float)bytesCopied / (float)totalBytes, if (totalBytes > 0)
Progress(old, bytesCopied, totalBytes) ==
    IF totalBytes > 0 THEN Frac(bytesCopied, totalBytes) ELSE old

\* body of the for loop: one entry is mirrored
WCEntry ==
    /\ ProcessAlive /\ w.pc = "C_entry"
    /\ \E ok \in Outcomes :
         /\ faults' = IF ok THEN faults ELSE faults + 1
         /\ LET entry == Head(w.entries)
                targetPath == Rebase(entry, jobs[w.cur].source, w.finalDest)
            IN  IF fs[entry].dir
                THEN IF ok /\ CanCreateDirectories(fs, targetPath)
                     THEN /\ fs' = create_directories(fs, targetPath)
                          /\ w' = [w EXCEPT !.entries = Tail(w.entries), !.pc = "C_walk"]
                          /\ UNCHANGED <<jobs, refused>>
                     ELSE /\ jobs' = Caught(jobs, w.cur)
                          /\ w' = [w EXCEPT !.success = FALSE, !.entries = <<>>,
                                            !.pc = "finish"]
                          /\ refused' = refused \cup {w.cur}
                          /\ UNCHANGED fs
                ELSE IF ok /\ CanCopyFile(fs, entry, targetPath)
                     THEN LET copied == w.bytesCopied + fs[entry].size
                          IN  /\ fs' = CopyFileExW(fs, entry, targetPath)
                              /\ jobs' = SetField(jobs, w.cur, "progress",
                                                  Progress(jobs[w.cur].progress, copied,
                                                           w.totalBytes))
                              /\ w' = [w EXCEPT !.bytesCopied = copied,
                                                !.entries = Tail(w.entries),
                                                !.pc = "C_walk"]
                              /\ UNCHANGED refused
                     ELSE /\ w' = [w EXCEPT !.entries = Tail(w.entries), !.pc = "C_walk"]
                          /\ refused' = refused \cup {w.cur}
                          /\ UNCHANGED <<fs, jobs>>
    /\ UNCHANGED <<m_queue, m_running, m_paused, m_stopThread, prod, nextId>>

\* success = true; if Move: status = Calculating (cleanup phase)
WCDone ==
    /\ ProcessAlive /\ w.pc = "C_done"
    /\ IF jobs[w.cur].type = "Move"
       THEN /\ jobs' = SetField(jobs, w.cur, "status", "Calculating")
            /\ w' = [w EXCEPT !.success = TRUE, !.pc = "C_cleanup"]
       ELSE /\ w' = [w EXCEPT !.success = TRUE, !.pc = "finish"]
            /\ UNCHANGED jobs
    /\ UNCHANGED <<m_queue, m_running, m_paused, m_stopThread, fs, prod, nextId, faults, refused>>

\* std::filesystem::remove_all(currentJob->source)
WCCleanup ==
    /\ ProcessAlive /\ w.pc = "C_cleanup"
    /\ \E ok \in Outcomes :
         /\ faults' = IF ok THEN faults ELSE faults + 1
         /\ IF ok
            THEN /\ fs' = remove_all(fs, jobs[w.cur].source)
                 /\ w' = [w EXCEPT !.pc = "finish"]
                 /\ UNCHANGED <<jobs, refused>>
            ELSE /\ jobs' = Caught(jobs, w.cur)
                 /\ w' = [w EXCEPT !.success = FALSE, !.pc = "finish"]
                 /\ refused' = refused \cup {w.cur}
                 /\ UNCHANGED fs
    /\ UNCHANGED <<m_queue, m_running, m_paused, m_stopThread, prod, nextId>>

\* if (success) status = Completed; else status = Failed
WFinish ==
    /\ ProcessAlive /\ w.pc = "finish"
    /\ jobs' = SetField(jobs, w.cur, "status", IF w.success THEN "Completed" ELSE "Failed")
    /\ w' = [w EXCEPT !.pc = IF w.success THEN "finishProgress" ELSE "finishError"]
    /\ UNCHANGED <<m_queue, m_running, m_paused, m_stopThread, fs, prod, nextId, faults, refused>>

\* currentJob->progress = 1.0f; the loop body ends, currentJob is released
WFinishProgress ==
    /\ ProcessAlive /\ w.pc = "finishProgress"
    /\ jobs' = Alive(SetField(jobs, w.cur, "progress", One), m_queue, NoJob)
    /\ refused' = refused \cap DOMAIN jobs'
    /\ w' = WorkerIdle
    /\ UNCHANGED <<m_queue, m_running, m_paused, m_stopThread, fs, prod, nextId, faults>>

\* WFinishError that also takes the failed job out of the queue
WFinishError_PopsJob ==
    /\ ProcessAlive /\ w.pc = "finishError"
    /\ m_queue' = SelectSeq(m_queue, LAMBDA id : id # w.cur)
    /\ jobs' = Alive(IF jobs[w.cur].errorMessage = ""
                     THEN SetField(jobs, w.cur, "errorMessage", "Win32 Error Code")
                     ELSE jobs,
                     m_queue', NoJob)
    /\ refused' = refused \cap DOMAIN jobs'
    /\ w' = WorkerIdle
    /\ UNCHANGED <<m_running, m_paused, m_stopThread, fs, prod, nextId, faults>>

\* if (errorMessage.empty()) errorMessage = "Win32 Error Code: ..."
WFinishError ==
    /\ ProcessAlive /\ w.pc = "finishError"
    /\ jobs' = Alive(IF jobs[w.cur].errorMessage = ""
                     THEN SetField(jobs, w.cur, "errorMessage", "Win32 Error Code")
                     ELSE jobs,
                     m_queue, NoJob)
    /\ refused' = refused \cap DOMAIN jobs'
    /\ w' = WorkerIdle
    /\ UNCHANGED <<m_queue, m_running, m_paused, m_stopThread, fs, prod, nextId, faults>>

Producer ==
    \/ \E src \in Sources, dest \in DestRoots, type \in JobTypes : QueueJob(src, dest, type)
    \/ QueueJobPush
    \/ StartQueue
    \/ PauseQueueFlag \/ PauseQueueLock \/ PauseQueueLoad \/ PauseQueueStore
    \/ ResumeQueueFlag \/ ResumeQueueLock \/ ResumeQueueLoad \/ ResumeQueueStore
    \/ \E index \in -1..Len(m_queue) : RemoveJobCall(index)
    \/ RemoveJobCheck \/ RemoveJobErase
    \/ Destructor \/ DestructorJoin

Worker ==
    \/ WLookup \/ WLookupClear \/ WSetCopying \/ WResolve
    \/ WStratA \/ WStratB \/ WBRemove
    \/ WCCalc \/ WCScan \/ WCSetCopying \/ WCMkdir \/ WCWalk \/ WCEntry
    \/ WCDone \/ WCCleanup
    \/ WFinish \/ WFinishProgress \/ WFinishError

Next == Producer \/ Worker

Spec == Init /\ [][Next]_vars

(***************************************************************************)
(* Runs for progress: the producer only queues and starts (no PauseQueue,  *)
(* RemoveJob or destructor), and the worker thread, which the OS keeps      *)
(* scheduling, takes a step whenever it can.                                *)
(***************************************************************************)
QueueAndStart ==
    \/ \E src \in Sources, dest \in DestRoots, type \in JobTypes : QueueJob(src, dest, type)
    \/ QueueJobPush
    \/ StartQueue

FairNext == QueueAndStart \/ Worker

FairSpec == Init /\ [][FairNext]_vars /\ WF_vars(Worker)

(***************************************************************************)
(* Runs with chained jobs: the producer also queues, as source, what an     *)
(* earlier job has produced in C:/T.                                        *)
(***************************************************************************)
ChainSources ==
    Sources \cup {Join(DirT, FileName("x", ".txt")), Join(DirT, FileName("A", ""))}

QueueChained ==
    \/ \E src \in ChainSources, dest \in DestRoots, type \in JobTypes :
          QueueJob(src, dest, type)
    \/ QueueJobPush
    \/ StartQueue

ChainNext == QueueChained \/ Worker

ChainSpec == Init /\ [][ChainNext]_vars

(***************************************************************************)
(* GetUniquePath on its own: the call  finalDest = GetUniquePath(finalDest) *)
(* for every target and every set of existing entries of one directory.    *)
(***************************************************************************)
UniqueNames ==
    {FileName("x", ".txt"), FileName("x (1)", ".txt"), FileName("x (2)", ".txt"),
     FileName("A", ""), FileName("A (1)", "")}

\* the directory D:/B holding the entries S (those without extension are
\* directories)
UniqueFs(S) ==
    [q \in {RootD, DirB} \cup {Join(DirB, n) : n \in S} |->
        IF q \in {RootD, DirB} \/ filename(q).ext = "" THEN DirEntry ELSE FileEntry(1)]

\* the worker has claimed a job and is at line 197: finalDest holds
\* currentJob->destination
UniqueInit ==
    /\ \E S \in SUBSET UniqueNames : fs = UniqueFs(S)
    /\ \E n \in UniqueNames :
          /\ jobs = <<[source |-> FileX, destination |-> Join(DirB, n), type |-> "Copy",
                       progress |-> Zero, status |-> "Copying", errorMessage |-> ""]>>
          /\ w = [WorkerIdle EXCEPT !.pc = "unique", !.cur = 1,
                                    !.finalDest = Join(DirB, n)]
    /\ m_queue = <<1>> /\ nextId = 2
    /\ m_running = TRUE /\ m_paused = FALSE /\ m_stopThread = FALSE
    /\ prod = ProdIdle /\ faults = 0 /\ refused = {}

\* finalDest = GetUniquePath(finalDest)
UniqueCall ==
    /\ w.pc = "unique"
    /\ w' = [w EXCEPT !.finalDest = GetUniquePath(fs, w.finalDest), !.pc = "uniqueDone"]
    /\ UNCHANGED <<m_queue, jobs, m_running, m_paused, m_stopThread, fs, prod, nextId,
                   faults, refused>>

UniqueNext == UniqueCall

UniqueSpec == UniqueInit /\ [][UniqueNext]_vars

(***************************************************************************)
(* Claims.                                                                 *)
(***************************************************************************)
StatusAt(k) == jobs[m_queue[k]].status

CopyingPositions == {k \in 1..Len(m_queue) : StatusAt(k) = "Copying"}

\* PauseQueue has returned and ResumeQueue has not been called since
PauseInForce ==
    m_paused /\ prod.pc \notin {"pauseLock", "pauseLoad", "pauseStore"}

\* the worker is inside the recursive tree copy of its current job
InTreeCopy ==
    w.pc \in {"C_calc", "C_scan", "C_setCopying", "C_mkdir", "C_walk", "C_entry",
              "C_done", "C_cleanup"}

\* C1: in every reachable state at most one job in the queue has status
\* Copying.
C1_AtMostOneCopying == Cardinality(CopyingPositions) <= 1

\* C2: RemoveJob(index) leaves the queue as it is when index is negative, is
\* not below the queue length, or the job at index is Copying; otherwise it
\* goes on to erase, and the erase yields the previous queue without the
\* element at index, the other jobs in their order and unchanged; no step of
\* the worker changes the queue meanwhile.
C2_RemoveJobFrame ==
    [][/\ (prod.pc = "removeLock" /\ prod' # prod) =>
              /\ m_queue' = m_queue /\ jobs' = jobs
              /\ IF prod.i < 0 \/ prod.i >= Len(m_queue)
                 THEN prod'.pc = "idle"
                 ELSE IF StatusAt(prod.i + 1) = "Copying"
                      THEN prod'.pc = "idle"
                      ELSE prod'.pc = "removeErase" /\ prod'.i = prod.i
       /\ (prod.pc \in {"removeLock", "removeErase"} /\ prod' = prod) =>
              m_queue' = m_queue
       /\ (prod.pc = "removeErase" /\ prod' # prod) =>
              /\ prod'.pc = "idle"
              /\ Len(m_queue') = Len(m_queue) - 1
              /\ \A k \in 1..Len(m_queue') :
                    /\ m_queue'[k] = m_queue[IF k <= prod.i THEN k ELSE k + 1]
                    /\ jobs'[m_queue'[k]] = jobs[m_queue'[k]]]_vars

\* C2 witness: an accepted removal of the first of two queued jobs is under way
C2_Witness ==
    prod.pc = "removeErase" /\ prod.i = 0 /\ Len(m_queue) = 2

\* C3: a job is removed from the queue only while its status is Pending,
\* Paused, Completed or Failed, never while it is Calculating or Copying.
C3_RemovedOnlyWhenInactive ==
    prod.pc = "removeErase" =>
        StatusAt(prod.i + 1) \in {"Pending", "Paused", "Completed", "Failed"}

\* the Pending jobs of the queue
PendingIds == {m_queue[k] : k \in {j \in 1..Len(m_queue) : StatusAt(j) = "Pending"}}

\* C4: whenever the worker claims a job, it is the Pending job at the smallest
\* queue position, which is also the earliest enqueued Pending job.
C4_Fifo ==
    [][(w.pc = "lookup" /\ w'.pc = "setCopying") =>
          /\ w'.cur \in PendingIds
          /\ \A k \in 1..Len(m_queue) :
                StatusAt(k) = "Pending" =>
                    \E j \in 1..k : m_queue[j] = w'.cur
          /\ \A id \in PendingIds : w'.cur <= id]_vars

\* C4 witness: the worker has claimed the first of two Pending jobs
C4_Witness ==
    /\ w.pc = "setCopying"
    /\ Len(m_queue) = 2 /\ m_queue[1] = w.cur
    /\ StatusAt(1) = "Pending" /\ StatusAt(2) = "Pending"

\* C5: the progress of a job in the recursive tree copy that PauseQueue has
\* set to Paused does not change between the return of PauseQueue and the
\* next call of ResumeQueue.
C5_PausedProgressFrozen ==
    [][(PauseInForce /\ InTreeCopy /\ jobs[w.cur].status = "Paused"
        /\ w.cur \in DOMAIN jobs') =>
          jobs'[w.cur].progress = jobs[w.cur].progress]_vars

\* C6: while the paused flag is set, between a PauseQueue call and the next
\* ResumeQueue call, the worker claims no Pending job.
C6_NoClaimWhilePaused ==
    [][m_paused => ~(w.pc = "lookup" /\ w'.pc = "setCopying")]_vars

\* C7: once the status of a job is Completed or Failed, no step changes it.
C7_TerminalStatus ==
    [][\A id \in DOMAIN jobs \cap DOMAIN jobs' :
          jobs[id].status \in {"Completed", "Failed"} =>
              jobs'[id].status = jobs[id].status]_vars

\* C8: no failure of a filesystem primitive terminates the worker thread.
C8_WorkerSurvives == w.pc # "terminated"

\* C9: a job for which a copy, move, create or delete primitive failed never
\* has status Completed.
C9_FailureSurfaced ==
    \A id \in DOMAIN jobs : id \in refused => jobs[id].status # "Completed"

\* the regular files below dir
FilesUnder(f, dir) == {q \in DOMAIN f : IsUnder(q, dir) /\ q # dir /\ ~f[q].dir}

\* every regular file below src is at the same relative path below dest, with
\* the same size
Mirrored(f, src, dest) ==
    \A q \in FilesUnder(f, src) :
        /\ exists(f, Rebase(q, src, dest))
        /\ ~f[Rebase(q, src, dest)].dir
        /\ f[Rebase(q, src, dest)].size = f[q].size

\* C10: when a directory job run by the recursive tree copy is Completed,
\* every regular file of the source tree is at the same relative path under
\* the final destination with the same size (stated for Copy, whose source
\* is still there to compare).
C10_TreeMirrored ==
    (w.pc = "finishProgress" /\ w.isFolder /\ jobs[w.cur].type = "Copy") =>
        Mirrored(fs, jobs[w.cur].source, w.finalDest)

\* the part of the filesystem at and below src
SourceTree(f, src) == Restrict(f, {q \in DOMAIN f : IsUnder(q, src)})

\* C11: when a job is set to Completed, a Move has left no source and its
\* final destination exists, and the source of a Copy still exists; while the
\* worker runs a Copy job, no step changes anything at or below its source.
C11_CompletedEffect ==
    /\ [](w.pc = "finishProgress" =>
             IF jobs[w.cur].type = "Move"
             THEN ~exists(fs, jobs[w.cur].source) /\ exists(fs, w.finalDest)
             ELSE exists(fs, jobs[w.cur].source))
    /\ [][(w.cur # NoJob /\ jobs[w.cur].type = "Copy") =>
             SourceTree(fs', jobs[w.cur].source) = SourceTree(fs, jobs[w.cur].source)]_vars

\* C11 witness: a file moved to the other volume is about to be shown Completed
C11_Witness ==
    /\ w.pc = "finishProgress"
    /\ jobs[w.cur].type = "Move" /\ ~w.isFolder /\ ~w.sameDrive

\* dest/<stem (n)ext>
Numbered(dest, name, n) ==
    Join(dest, FileName(name.stem \o " (" \o ToString(n) \o ")", name.ext))

\* C12: for a job queued into an existing directory dest, the final
\* destination the worker fixes is dest/<filename of source> when that path
\* does not exist, and otherwise dest/<stem (n)ext> with n the smallest
\* positive integer whose path does not exist.
C12_FinalDestIsChild ==
    [][(w.pc = "resolve" /\ w'.pc \in {"stratA", "stratB", "C_calc"}) =>
          LET dest == parent_path(jobs[w.cur].destination)
              name == filename(jobs[w.cur].source)
          IN  (is_directory(fs, dest) /\ filename(jobs[w.cur].destination) = name) =>
                 IF ~exists(fs, Join(dest, name))
                 THEN w'.finalDest = Join(dest, name)
                 ELSE \E n \in 1..(MaxJobs + 1) :
                         /\ w'.finalDest = Numbered(dest, name, n)
                         /\ ~exists(fs, Numbered(dest, name, n))
                         /\ \A k \in 1..(n - 1) : exists(fs, Numbered(dest, name, k))]_vars

\* C13: GetUniquePath(p) returns p when p does not exist; when p exists it
\* returns parent/<stem> (n)<ext> with n the smallest positive integer whose
\* path does not exist; the path returned never exists.
C13_GetUniquePath ==
    [][(w.pc = "unique" /\ w'.pc = "uniqueDone") =>
          LET p == w.finalDest
              r == w'.finalDest
          IN  /\ ~exists(fs, r)
              /\ ~exists(fs, p) => r = p
              /\ exists(fs, p) =>
                    \E n \in 1..(Cardinality(UniqueNames) + 1) :
                       /\ r = Numbered(parent_path(p), filename(p), n)
                       /\ \A k \in 1..(n - 1) :
                             exists(fs, Numbered(parent_path(p), filename(p), k))]_vars

\* C13 witness: x.txt and x (1).txt exist, and the call for x.txt has
\* returned x (2).txt
C13_Witness ==
    /\ w.pc = "uniqueDone"
    /\ jobs[w.cur].destination = Join(DirB, FileName("x", ".txt"))
    /\ w.finalDest = Join(DirB, FileName("x (2)", ".txt"))
    /\ exists(fs, Join(DirB, FileName("x", ".txt")))
    /\ exists(fs, Join(DirB, FileName("x (1)", ".txt")))

\* C14: a step that sets the running flag (StartQueue) changes nothing else;
\* the worker claims a job only while the running flag is set; the running
\* flag is cleared only by the worker, at the end of a lookup, and only while
\* the queue holds no Pending job.
C14_RunningFlag ==
    [][/\ (~m_running /\ m_running') =>
              UNCHANGED <<m_queue, jobs, m_paused, m_stopThread, fs, prod, w, nextId,
                          faults, refused>>
       /\ (w.pc = "lookup" /\ w'.pc = "setCopying") => m_running
       /\ (m_running /\ ~m_running') =>
              /\ w.pc = "lookupClear" /\ w'.pc = "lookup"
              /\ PendingIds = {}
              /\ UNCHANGED <<m_queue, jobs>>]_vars

\* C15: with the producer only queueing and starting and the worker scheduled
\* fairly, every job that is Pending while the running flag is set (StartQueue
\* was called after the job was queued) eventually is Completed or Failed,
\* and a set running flag eventually is cleared (unless a QueueJob call has
\* brought the process down).
C15_QueueDrains ==
    /\ \A id \in 1..MaxJobs :
          (id \in DOMAIN jobs /\ jobs[id].status = "Pending" /\ m_running)
              ~> \/ id \in DOMAIN jobs /\ jobs[id].status \in {"Completed", "Failed"}
                 \/ prod.pc = "terminated"
    /\ m_running ~> (~m_running \/ prod.pc = "terminated")

\* C16: once the destructor has set the stop flag and waits in join, the
\* worker has left its loop or can take a step that gets it further: it is
\* never stuck.
C16_TeardownTerminates ==
    (prod.pc = "join" /\ w.pc \notin {"exited", "terminated"}) => ENABLED <<Worker>>_vars

\* C17: no step of the worker changes the queue; a Failed job the worker has
\* let go of has a non-empty errorMessage, and every step leaves it in the
\* queue with that errorMessage, at its position unless the step is the erase
\* of a RemoveJob call, which may take it out or move it up.
C17_FailedJobStays ==
    [][/\ w' # w => m_queue' = m_queue
       /\ \A k \in 1..Len(m_queue) :
             LET id == m_queue[k]
                 erasing == prod.pc = "removeErase" /\ prod' # prod
             IN  (StatusAt(k) = "Failed" /\ id # w.cur) =>
                    /\ jobs[id].errorMessage # ""
                    /\ \/ erasing /\ k = prod.i + 1
                       \/ /\ \E j \in 1..Len(m_queue') :
                                /\ m_queue'[j] = id
                                /\ j = k \/ erasing
                          /\ jobs'[id].errorMessage = jobs[id].errorMessage]_vars

\* C17 witness: the first job has failed and keeps its place and message
\* while the second has been carried out
C17_Witness ==
    /\ Len(m_queue) = 2 /\ w.cur = NoJob
    /\ StatusAt(1) = "Failed" /\ jobs[m_queue[1]].errorMessage # ""
    /\ StatusAt(2) = "Completed"

\* C18: the progress of every job lies in [0, 1], and is 0 while the job is
\* Pending.
C18_ProgressInUnitInterval ==
    \A id \in DOMAIN jobs :
        /\ FracLeq(Zero, jobs[id].progress) /\ FracLeq(jobs[id].progress, One)
        /\ jobs[id].status = "Pending" => jobs[id].progress = Zero

\* C19: in every state a job whose status is Completed has progress 1.0.
C19_CompletedProgressOne ==
    \A id \in DOMAIN jobs : jobs[id].status = "Completed" => jobs[id].progress = One

\* C20: in every state a job's errorMessage is empty unless its status is
\* Failed; errorMessage is written at most once (only while it is empty), and
\* a Failed job the worker has let go of has had it written.
C20_ErrorMessage ==
    /\ [](\A id \in DOMAIN jobs :
             /\ jobs[id].errorMessage # "" => jobs[id].status = "Failed"
             /\ (jobs[id].status = "Failed" /\ id # w.cur) => jobs[id].errorMessage # "")
    /\ [][\A id \in DOMAIN jobs \cap DOMAIN jobs' :
             jobs'[id].errorMessage # jobs[id].errorMessage =>
                 jobs[id].errorMessage = ""]_vars

\* C21: a job leaves the status Paused only by the store of ResumeQueue, which
\* sets it to Copying (or by leaving the queue): no step of the worker
\* overwrites Paused.
C21_PausedLeftOnlyByResume ==
    [][\A id \in DOMAIN jobs \cap DOMAIN jobs' :
          (jobs[id].status = "Paused" /\ jobs'[id].status # "Paused") =>
              /\ prod.pc = "resumeStore" /\ prod' # prod
              /\ jobs'[id].status = "Copying"]_vars

\* C22: no step lowers the progress of a job.
C22_ProgressMonotone ==
    [][\A id \in DOMAIN jobs \cap DOMAIN jobs' :
          FracLeq(jobs[id].progress, jobs'[id].progress)]_vars

\* C23: no step changes the source or the type of a job, and no step changes
\* the destination of a job whose status is not Pending.
C23_JobFieldsStable ==
    [][\A id \in DOMAIN jobs \cap DOMAIN jobs' :
          /\ jobs'[id].source = jobs[id].source
          /\ jobs'[id].type = jobs[id].type
          /\ jobs[id].status # "Pending" =>
                jobs'[id].destination = jobs[id].destination]_vars

\* the positions of the worker inside each of the three strategies
StrategyA == {"stratA"}
StrategyB == {"stratB", "B_remove"}
StrategyC == {"C_calc", "C_scan", "C_setCopying", "C_mkdir", "C_walk", "C_entry",
              "C_done", "C_cleanup"}

\* C24: when the dispatch is reached, the instant rename is chosen exactly for
\* a directory source, Move and equal root names, the single-file transfer
\* exactly for a source that is no directory, and the tree copy exactly for a
\* directory source otherwise; the single-file transfer copies if the type is
\* Copy or the root names differ and moves otherwise; a strategy is entered
\* only from the dispatch, never left for another one, and the job is finished
\* only from inside a strategy, so exactly one runs per dispatched job.
C24_StrategySelection ==
    [][/\ (w.pc = "resolve" /\ w'.pc # "resolve" /\ w'.pc # "terminated") =>
              LET isDir == is_directory(fs, jobs[w.cur].source)
                  move  == jobs[w.cur].type = "Move"
                  same  == root_name(jobs[w.cur].source) = root_name(w'.finalDest)
              IN  /\ w'.pc \in {"stratA", "stratB", "C_calc"}
                  /\ w'.pc = "stratA" <=> (isDir /\ move /\ same)
                  /\ w'.pc = "stratB" <=> ~isDir
                  /\ w'.pc = "C_calc" <=> (isDir /\ ~(move /\ same))
       /\ (w.pc = "stratB" /\ fs' # fs) =>
              LET src == jobs[w.cur].source
                  byteCopy == jobs[w.cur].type = "Copy"
                              \/ root_name(src) # root_name(w.finalDest)
              IN  fs' = IF byteCopy THEN CopyFileExW(fs, src, w.finalDest)
                        ELSE MoveFileWithProgressW(fs, src, w.finalDest)
       /\ \A S \in {StrategyA, StrategyB, StrategyC} :
             /\ (w.pc \notin S /\ w'.pc \in S) => w.pc = "resolve"
             /\ (w.pc \in S /\ w'.pc \notin S) => w'.pc \in {"finish", "terminated"}
       /\ (w.pc # "finish" /\ w'.pc = "finish") =>
              w.pc \in StrategyA \cup StrategyB \cup StrategyC]_vars

\* C24 witness: a directory is moved to the other volume, so the tree copy
\* has been chosen
C24_Witness ==
    /\ w.pc = "C_calc"
    /\ w.isFolder /\ jobs[w.cur].type = "Move" /\ ~w.sameDrive

\* the next statement of the thread is a filesystem call
ProducerAtFsCall == prod.pc = "queueIsDir"

WorkerAtFsCall ==
    w.pc \in {"resolve", "stratA", "stratB", "B_remove", "C_scan", "C_mkdir", "C_walk",
              "C_entry", "C_cleanup"}

\* C25: no thread performs a filesystem call while it holds m_queueMutex.
C25_NoFsCallUnderMutex ==
    /\ ~(ProducerHoldsMutex /\ ProducerAtFsCall)
    /\ ~(WorkerHoldsMutex /\ WorkerAtFsCall)

\* size of an entry as the scan counts it
CountedSize(f, q) == IF f[q].dir THEN 0 ELSE f[q].size

\* C26: the size scan never raises to the worker, and it returns the sum of
\* the sizes of all regular files below the source, less the entry whose
\* traversal raised an error, if one did: the files after it are counted.
C26_DirectorySize ==
    [][(w.pc = "C_scan" /\ w' # w) =>
          LET entries == recursive_directory_iterator(fs, jobs[w.cur].source)
              all == SumSizes(fs, entries, Len(entries))
          IN  /\ w'.pc = "C_setCopying"
              /\ IF faults' = faults THEN w'.totalBytes = all
                 ELSE \E k \in 1..Len(entries) :
                         w'.totalBytes = all - CountedSize(fs, entries[k])]_vars

\* C27: an error raised by the size scan or by the enumeration of the source
\* tree during the walk does not send the job to the failure outcome and
\* leaves its errorMessage alone.
C27_ScanErrorsSwallowed ==
    [][(w.pc \in {"C_scan", "C_walk"} /\ faults' # faults) =>
          /\ ~(w'.pc = "finish" /\ ~w'.success)
          /\ jobs'[w.cur].errorMessage = jobs[w.cur].errorMessage]_vars

\* C28: no step sets a status that is not Pending back to Pending; the worker
\* claims only a Pending job, takes it out of Pending in its next step and
\* lets go of it only with a status other than Pending: so no job is claimed
\* or carried out twice.
C28_NeverReused ==
    [][/\ \A id \in DOMAIN jobs \cap DOMAIN jobs' :
             jobs[id].status # "Pending" => jobs'[id].status # "Pending"
       /\ (w.pc = "lookup" /\ w'.pc = "setCopying") =>
             /\ w.cur = NoJob
             /\ jobs[w'.cur].status = "Pending"
       /\ (w.pc = "setCopying" /\ w' # w) => jobs'[w.cur].status # "Pending"
       /\ (w.cur # NoJob /\ w'.cur # w.cur) =>
             /\ w'.cur = NoJob
             /\ jobs[w.cur].status # "Pending"]_vars

\* C28 witness: the first job is Completed and stays so while the worker
\* carries out the second
C28_Witness ==
    /\ Len(m_queue) = 2
    /\ StatusAt(1) = "Completed"
    /\ w.cur = m_queue[2] /\ w.pc = "resolve"

\* C29: from the lookup that selects a job until the worker has stored its
\* terminal status, that job is in the queue.
C29_CurrentJobInQueue ==
    (w.cur # NoJob /\ w.pc \notin {"finishProgress", "finishError"}) =>
        \E k \in 1..Len(m_queue) : m_queue[k] = w.cur

\* C30: once ResumeQueue has returned and no other producer call is under way
\* (the paused flag is clear), the worker is not blocked: unless it has left
\* its loop it can take a step that gets it further.
C30_WorkerNotBlocked ==
    (prod.pc = "idle" /\ ~m_paused /\ w.pc \notin {"exited", "terminated"}) =>
        ENABLED <<Worker>>_vars

\* the regular files at and below src
FilesOf(f, src) == {q \in DOMAIN f : IsUnder(q, src) /\ ~f[q].dir}

\* C31: whenever a step of a Move job makes its source disappear, every
\* regular file that was in the source is afterwards at the corresponding
\* path under the job's final destination, with its size.
C31_MoveLosesNothing ==
    [][(w.cur # NoJob /\ jobs[w.cur].type = "Move"
        /\ exists(fs, jobs[w.cur].source) /\ ~exists(fs', jobs[w.cur].source)) =>
          \A q \in FilesOf(fs, jobs[w.cur].source) :
             LET t == Rebase(q, jobs[w.cur].source, w.finalDest)
             IN  /\ exists(fs', t)
                 /\ ~fs'[t].dir
                 /\ fs'[t].size = fs[q].size]_vars

\* C32: in every state in which the running flag is false the worker holds no
\* job: it is at its lookup (or has left its loop), not between claiming a
\* job and the end of that job's run.
C32_IdleWhenNotRunning ==
    ~m_running => (w.cur = NoJob /\ w.pc \in {"lookup", "lookupClear", "exited"})

\* C32 witness: the worker has carried out the first job and cleared the flag;
\* a job queued since then waits, and the worker polls
C32_Witness ==
    /\ ~m_running /\ w.pc = "lookup"
    /\ Len(m_queue) = 2
    /\ StatusAt(1) = "Completed" /\ StatusAt(2) = "Pending"

\* the worker has fixed the final destination and has not yet written
BeforeFirstWrite ==
    w.pc \in {"stratA", "stratB", "C_calc", "C_scan", "C_setCopying", "C_mkdir"}

\* C33: when a strategy begins to write, the final destination of the job
\* does not exist, and no step changes the entry of a path that exists before
\* and after it: nothing is written over.
C33_NoOverwrite ==
    /\ [](BeforeFirstWrite => ~exists(fs, w.finalDest))
    /\ [][\A q \in DOMAIN fs \cap DOMAIN fs' : fs'[q] = fs[q]]_vars

\* C33 witness: the source is the file an earlier job has put into C:/T, it
\* is copied into C:/T again and is about to be written as x (1).txt
C33_Witness ==
    /\ w.pc = "stratB"
    /\ jobs[w.cur].source = Join(DirT, FileName("x", ".txt"))
    /\ exists(fs, jobs[w.cur].source)
    /\ w.finalDest = Join(DirT, FileName("x (1)", ".txt"))

====
